---------------------------- MODULE Spec2Model ----------------------------
(***************************************************************************)
(* Aura Intuitive server: the consultation record and the HTTP handlers    *)
(* that create and change it (payment webhook, customer submit, /test,     *)
(* the /form gate, admin login/logout, stats, list, respond, delete).      *)
(*                                                                         *)
(* The store is the consultations table.  A handler that awaits more than  *)
(* one remote call is a sequence of steps, one per await, so that other    *)
(* requests interleave between its store read and its store write.  Every  *)
(* remote call (store, payment provider, email) can fail.                  *)
(***************************************************************************)
EXTENDS Integers, FiniteSets, Bags, TLC

(* ------------------------------ bounds -------------------------------- *)

\* Requests that can be in flight (between two awaits) at the same time.
MaxReq == 2

\* Rows the store ever generates an id for (uuid_generate_v4 never repeats).
MaxId == 2

(* ----------------------------- constants ------------------------------ *)

NULL == "null"

\* session.amount_total absent (null/undefined) in the provider's object.
NoAmount == -1

\* amountTotal >= 1000
Threshold == 1000

PremiumLabel == "Consultation Ressenti"

\* 'Réponse Oui / Non' (written without the accent)
StandardLabel == "Reponse Oui / Non"

\* Checkout sessions the payment provider knows.
Sessions == {"cs_1"}

\* 'test_' + Date.now(): the ids GET /test can make up.  The provider does
\* not know them (retrieve throws).
TestSessions == {"test_1"}

SessionIds == Sessions \cup TestSessions

\* amount_total of a provider session, in minor units (the service label is
\* checked on WideAmounts).
AmountTotals == {999}

\* The amounts the service label is checked on, around the threshold.
WideAmounts == {NoAmount, 0, 1, 999, 1000, 1001, 2500}

PaymentStatuses == {"paid", "unpaid"}

Ids == 1 .. MaxId

\* Request bodies of POST /api/submit, for the provider's sessions; "" is a
\* missing (falsy) field.
SubmitBodies ==
    { [session_id |-> s, name |-> "n1", email |-> "e1", message |-> "m1"] :
          s \in Sessions }
    \cup { [session_id |-> "cs_1", name |-> "n1", email |-> "e1", message |-> ""] }

\* Request bodies of POST /api/admin/respond; id 0 and response "" are
\* missing (falsy) fields.
RespondBodies ==
    { [id |-> i, response |-> "r1"] : i \in 0 .. MaxId }
    \cup { [id |-> 1, response |-> ""] }

\* process.env.ADMIN_PASSWORD and a password that differs from it.
ADMIN_PASSWORD == "secret"

Passwords == {ADMIN_PASSWORD, "wrong"}

\* new Date().toISOString(): some non-null timestamp.
Now == "ts"

VARIABLES
    store,      \* the consultations table: a set of rows
    nextId,     \* the next id the store generates
    stripe,     \* the provider's sessions: payment_status and amount_total
    admin,      \* req.session.admin of the admin's cookie
    req,        \* the requests in flight, a bag: position and locals of each
    last,       \* the response being sent (Idle: none)
    verified,   \* sessions a verified event, or a paid retrieve ahead of an
                \* insert, vouched for
    deleted     \* sessions whose record an admin delete removed

vars == <<store, nextId, stripe, admin, req, last, verified, deleted>>

(* ------------------------------- rows --------------------------------- *)

\* One request: its handler, its position, its inputs and its result.
\*   seen     consultation.status as the lookup returned it ("none": no data)
\*   updated the request's own insert or update committed
\*   mail    what became of resend.emails.send: "none" (not called),
\*           "delivered" (resolved) or "threw"
\*   event   the webhook's event: "unverified", "other" or "completed"
\*   pay     what stripe.checkout.sessions.retrieve gave: "threw",
\*           "unpaid" or "paid"
\*   view    what GET /form sent: "services" (the redirect), "already"
\*           (already-submitted.html) or "form" (form.html)
\*   password  the password of a login request
\*   stats   the body of GET /api/admin/stats
\*   list    the rows GET /api/admin/consultations returned
Idle ==
    [op |-> "none", pc |-> "idle", session_id |-> NULL, name |-> NULL,
     email |-> NULL, message |-> NULL, id |-> 0, response |-> NULL,
     seen |-> "none", code |-> 0, emailSent |-> FALSE,
     updated |-> FALSE, mail |-> "none", event |-> "none", pay |-> "none",
     view |-> "none", password |-> NULL,
     stats |-> [total |-> 0, pending |-> 0, answered |-> 0, revenue |-> 0],
     list |-> {}]

StatusRank(s) ==
    CASE s = "paid" -> 1
      [] s = "submitted" -> 2
      [] s = "answered" -> 3

\* amount_total ?? 0
AmountOrZero(a) == IF a = NoAmount THEN 0 ELSE a

\* The service label as the webhook derives it.
WebhookService(amountTotal) ==
    IF amountTotal >= Threshold THEN PremiumLabel ELSE StandardLabel

\* Mutant: the fallback compares with > instead of >=.
SubmitService_Strict(amountTotal) ==
    IF amountTotal > Threshold THEN PremiumLabel ELSE StandardLabel

\* The service label as the submit fallback derives it.
SubmitService(amountTotal) ==
    IF amountTotal >= Threshold THEN PremiumLabel ELSE StandardLabel

\* session.customer_details?.email of a provider session: none was given.
CustomerDetailsEmail(s) == NULL

\* a || b on nullable strings
OrElse(a, b) == IF a = NULL \/ a = "" THEN b ELSE a

\* The row the webhook inserts.  amount is amountTotal / 100, kept in
\* hundredths (NUMERIC(10,2)).
WebhookRow(id, s, amountTotal) ==
    [id |-> id, stripe_session_id |-> s,
     service |-> WebhookService(amountTotal), amount |-> amountTotal,
     status |-> "paid", customer_email |-> OrElse(CustomerDetailsEmail(s), NULL),
     name |-> NULL, email |-> NULL, message |-> NULL, response |-> NULL,
     submitted_at |-> NULL, answered_at |-> NULL]

\* The row the submit fallback inserts.
FallbackRow(id, q, amountTotal) ==
    [id |-> id, stripe_session_id |-> q.session_id,
     service |-> SubmitService(amountTotal), amount |-> amountTotal,
     status |-> "submitted",
     customer_email |-> OrElse(CustomerDetailsEmail(q.session_id), q.email),
     name |-> q.name, email |-> q.email, message |-> q.message,
     response |-> NULL, submitted_at |-> Now, answered_at |-> NULL]

\* The row GET /test inserts: amount 10 is 1000 hundredths.
TestRow(id, s) ==
    [id |-> id, stripe_session_id |-> s, service |-> PremiumLabel,
     amount |-> 1000, status |-> "paid", customer_email |-> "test@test.com",
     name |-> NULL, email |-> NULL, message |-> NULL, response |-> NULL,
     submitted_at |-> NULL, answered_at |-> NULL]

(* ------------------------------ the store ----------------------------- *)

\* Mutant: the column is declared without UNIQUE.
UniqueViolation_None(st, row) == FALSE

\* stripe_session_id TEXT UNIQUE NOT NULL: an insert of a second row with
\* the same session id is rejected.
UniqueViolation(st, row) ==
    \E x \in st : x.stripe_session_id = row.stripe_session_id

\* .select(..).eq('stripe_session_id', sid).single(): the rows that match.
BySession(st, sid) == {x \in st : x.stripe_session_id = sid}

\* .select('*').eq('id', id).single(): the rows that match.
ById(st, id) == {x \in st : x.id = id}

\* .update({status: 'submitted', name, email, message, submitted_at})
\*   .eq('stripe_session_id', session_id)
SubmitUpdateRow(x, q) ==
    [x EXCEPT !.status = "submitted", !.name = q.name, !.email = q.email,
              !.message = q.message, !.submitted_at = Now]

UpdateBySession(st, q) ==
    {IF x.stripe_session_id = q.session_id THEN SubmitUpdateRow(x, q) ELSE x :
         x \in st}

\* Mutant: answering an 'answered' record reopens it.
RespondUpdateRow_Reopen(x, q) ==
    [x EXCEPT !.status = IF x.status = "answered" THEN "submitted"
                         ELSE "answered",
              !.response = q.response, !.answered_at = Now]

\* .update({status: 'answered', response, answered_at}).eq('id', id)
RespondUpdateRow(x, q) ==
    [x EXCEPT !.status = "answered", !.response = q.response,
              !.answered_at = Now]

UpdateById(st, q) ==
    {IF x.id = q.id THEN RespondUpdateRow(x, q) ELSE x : x \in st}

\* Mutant: the filter is .lte('id', id).
DeleteById_Lte(st, id) == {x \in st : x.id > id}

\* .delete().eq('id', id)
DeleteById(st, id) == {x \in st : x.id # id}

(* ------------------------------- Init --------------------------------- *)

Init ==
    /\ store = {}
    /\ nextId = 1
    /\ stripe \in [Sessions -> [payment_status : PaymentStatuses,
                                amount_total : AmountTotals]]
    /\ admin = FALSE
    /\ req = EmptyBag
    /\ last = Idle
    /\ verified = {}
    /\ deleted = {}

\* The requests in flight.
InFlight == BagToSet(req)

\* A new request reaches its first await: q is where it resumes.
Start(q) ==
    /\ last = Idle
    /\ BagCardinality(req) < MaxReq
    /\ req' = req (+) SetToBag({q})
    /\ last' = Idle

\* The handler of request p awaits again: q is where it resumes.
Await(p, q) ==
    /\ last = Idle
    /\ req' = (req (-) SetToBag({p})) (+) SetToBag({q})
    /\ last' = Idle

\* The handler of request p sends its response q.
Complete(p, q) ==
    /\ last = Idle
    /\ req' = req (-) SetToBag({p})
    /\ last' = [q EXCEPT !.pc = "done"]

\* A new request gets its response q before any second await.
Answer(q) ==
    /\ last = Idle
    /\ req' = req
    /\ last' = [q EXCEPT !.pc = "done"]

\* The response has left: the next step of any handler follows.
Sent ==
    /\ last # Idle
    /\ last' = Idle
    /\ UNCHANGED <<store, nextId, stripe, admin, req, verified, deleted>>

(* --------------------------- 1. the webhook --------------------------- *)

\* POST /api/webhook without a stripe-signature header, or with one that
\* constructEvent rejects.
WebhookUnverified ==
    /\ Answer([Idle EXCEPT !.op = "webhook", !.event = "unverified",
                            !.code = 400])
    /\ UNCHANGED <<store, nextId, stripe, admin, verified, deleted>>

\* A verified event of another type than checkout.session.completed.
WebhookOtherEvent ==
    /\ Answer([Idle EXCEPT !.op = "webhook", !.event = "other", !.code = 200])
    /\ UNCHANGED <<store, nextId, stripe, admin, verified, deleted>>

\* Mutant: the insert is an upsert on stripe_session_id.
WebhookCompleted_Upsert(s) ==
    LET amountTotal == AmountOrZero(stripe[s].amount_total)
        q == [Idle EXCEPT !.op = "webhook", !.event = "completed",
                          !.session_id = s, !.code = 200]
    IN  /\ verified' = verified \cup {s}
        /\ \/ /\ BySession(store, s) = {}
              /\ nextId <= MaxId
              /\ store' = store \cup {WebhookRow(nextId, s, amountTotal)}
              /\ nextId' = nextId + 1
              /\ Answer([q EXCEPT !.updated = TRUE])
           \/ /\ BySession(store, s) # {}
              /\ store' = {IF x.stripe_session_id = s
                           THEN WebhookRow(x.id, s, amountTotal) ELSE x :
                               x \in store}
              /\ UNCHANGED nextId
              /\ Answer([q EXCEPT !.updated = TRUE])
           \/ /\ UNCHANGED <<store, nextId>>
              /\ Answer(q)
        /\ UNCHANGED <<stripe, admin, deleted>>

\* Mutant: a failed insert is answered 500.
WebhookCompleted_Surfaced(s) ==
    LET amountTotal == AmountOrZero(stripe[s].amount_total)
        row == WebhookRow(nextId, s, amountTotal)
        q == [Idle EXCEPT !.op = "webhook", !.event = "completed",
                          !.session_id = s, !.code = 200]
    IN  /\ verified' = verified \cup {s}
        /\ \/ /\ ~UniqueViolation(store, row)
              /\ nextId <= MaxId
              /\ store' = store \cup {row}
              /\ nextId' = nextId + 1
              /\ Answer([q EXCEPT !.updated = TRUE])
           \/ /\ UNCHANGED <<store, nextId>>
              /\ Answer([q EXCEPT !.code = 500])
        /\ UNCHANGED <<stripe, admin, deleted>>

\* A verified checkout.session.completed event for session s.
WebhookCompleted(s) ==
    LET amountTotal == AmountOrZero(stripe[s].amount_total)
        row == WebhookRow(nextId, s, amountTotal)
        q == [Idle EXCEPT !.op = "webhook", !.event = "completed",
                          !.session_id = s, !.code = 200]
    IN  /\ verified' = verified \cup {s}
        /\ \/ /\ ~UniqueViolation(store, row)
              /\ nextId <= MaxId
              /\ store' = store \cup {row}
              /\ nextId' = nextId + 1
              /\ Answer([q EXCEPT !.updated = TRUE])
           \/ \* the insert fails: a constraint, or the store itself
              /\ UNCHANGED <<store, nextId>>
              /\ Answer(q)
        /\ UNCHANGED <<stripe, admin, deleted>>

(* ---------------------------- 2. GET /form ---------------------------- *)

\* ?session_id= of GET /form; "" is a missing one.
FormQueries == SessionIds \cup {""}

\* The check of session_id, then the lookup of the row's status.
FormFetch(s) ==
    /\ LET q == [Idle EXCEPT !.op = "form", !.session_id = s]
       IN  IF s = ""
           THEN Answer([q EXCEPT !.code = 302, !.view = "services"])
           ELSE \/ \E c \in BySession(store, s) :
                      IF c.status # "paid"
                      THEN Answer([q EXCEPT !.seen = c.status, !.code = 200,
                                            !.view = "already"])
                      ELSE Answer([q EXCEPT !.seen = c.status, !.code = 200,
                                            !.view = "form"])
                \/ \* error || !data: no row, or the lookup failed
                   Start([q EXCEPT !.pc = "verify"])
    /\ UNCHANGED <<store, nextId, stripe, admin, verified, deleted>>

\* Mutant: the catch of the retrieve falls through to the form.
FormVerify_OpenOnThrow(q) ==
    /\ q.pc = "verify"
    /\ \/ Complete(q, [q EXCEPT !.pay = "threw", !.code = 200,
                                !.view = "form"])
       \/ /\ q.session_id \in Sessions
          /\ IF stripe[q.session_id].payment_status # "paid"
             THEN Complete(q, [q EXCEPT !.pay = "unpaid", !.code = 302,
                                        !.view = "services"])
             ELSE Complete(q, [q EXCEPT !.pay = "paid", !.code = 200,
                                        !.view = "form"])
    /\ UNCHANGED <<store, nextId, stripe, admin, verified, deleted>>

\* stripe.checkout.sessions.retrieve(sessionId) of GET /form
FormVerify(q) ==
    /\ q.pc = "verify"
    /\ \/ \* retrieve throws: unknown session, or the provider fails
          Complete(q, [q EXCEPT !.pay = "threw", !.code = 302,
                                !.view = "services"])
       \/ /\ q.session_id \in Sessions
          /\ IF stripe[q.session_id].payment_status # "paid"
             THEN Complete(q, [q EXCEPT !.pay = "unpaid", !.code = 302,
                                        !.view = "services"])
             ELSE Complete(q, [q EXCEPT !.pay = "paid", !.code = 200,
                                        !.view = "form"])
    /\ UNCHANGED <<store, nextId, stripe, admin, verified, deleted>>

(* ------------------------- 3. POST /api/submit ------------------------ *)

\* Mutant: the handler does not look at consultation.status.
SubmitFetch_NoStatusCheck(b) ==
    /\ LET q == [Idle EXCEPT !.op = "submit", !.session_id = b.session_id,
                             !.name = b.name, !.email = b.email,
                             !.message = b.message]
       IN  IF b.session_id = "" \/ b.name = "" \/ b.email = "" \/ b.message = ""
           THEN Answer([q EXCEPT !.code = 400])
           ELSE \/ \E c \in BySession(store, b.session_id) :
                      Start([q EXCEPT !.pc = "update", !.seen = c.status])
                \/ Start([q EXCEPT !.pc = "retrieve"])
    /\ UNCHANGED <<store, nextId, stripe, admin, verified, deleted>>

\* Validation, then the lookup of the row by session id.
SubmitFetch(b) ==
    /\ LET q == [Idle EXCEPT !.op = "submit", !.session_id = b.session_id,
                             !.name = b.name, !.email = b.email,
                             !.message = b.message]
       IN  IF b.session_id = "" \/ b.name = "" \/ b.email = "" \/ b.message = ""
           THEN Answer([q EXCEPT !.code = 400])
           ELSE \/ \E c \in BySession(store, b.session_id) :
                      IF c.status # "paid"
                      THEN Answer([q EXCEPT !.seen = c.status, !.code = 400])
                      ELSE Start([q EXCEPT !.pc = "update", !.seen = c.status])
                \/ \* fetchError || !consultation: no row, or the lookup failed
                   Start([q EXCEPT !.pc = "retrieve"])
    /\ UNCHANGED <<store, nextId, stripe, admin, verified, deleted>>

\* Mutant: the handler does not look at session.payment_status.
SubmitRetrieve_NoPaidCheck(q) ==
    /\ q.pc = "retrieve"
    /\ \/ /\ Complete(q, [q EXCEPT !.pay = "threw", !.code = 403])
          /\ UNCHANGED verified
       \/ /\ q.session_id \in Sessions
          /\ Await(q, [q EXCEPT !.pc = "insert",
                                !.pay = stripe[q.session_id].payment_status])
          /\ verified' = verified \cup {q.session_id}
    /\ UNCHANGED <<store, nextId, stripe, admin, deleted>>

\* stripe.checkout.sessions.retrieve(session_id)
SubmitRetrieve(q) ==
    /\ q.pc = "retrieve"
    /\ \/ \* retrieve throws: unknown session, or the provider fails
          /\ Complete(q, [q EXCEPT !.pay = "threw", !.code = 403])
          /\ UNCHANGED verified
       \/ /\ q.session_id \in Sessions
          /\ IF stripe[q.session_id].payment_status # "paid"
             THEN /\ Complete(q, [q EXCEPT !.pay = "unpaid", !.code = 403])
                  /\ UNCHANGED verified
             ELSE /\ Await(q, [q EXCEPT !.pc = "insert", !.pay = "paid"])
                  /\ verified' = verified \cup {q.session_id}
    /\ UNCHANGED <<store, nextId, stripe, admin, deleted>>

\* The fallback insert, straight into 'submitted'.
SubmitInsert(q) ==
    /\ q.pc = "insert"
    /\ LET amountTotal == AmountOrZero(stripe[q.session_id].amount_total)
           row == FallbackRow(nextId, q, amountTotal)
       IN  \/ /\ ~UniqueViolation(store, row)
              /\ nextId <= MaxId
              /\ store' = store \cup {row}
              /\ nextId' = nextId + 1
              /\ Complete(q, [q EXCEPT !.code = 200, !.updated = TRUE])
           \/ \* insertError
              /\ Complete(q, [q EXCEPT !.code = 500])
              /\ UNCHANGED <<store, nextId>>
    /\ UNCHANGED <<stripe, admin, verified, deleted>>

\* Mutant: the handler does not return on updateError.
SubmitUpdate_NoReturn(q) ==
    /\ q.pc = "update"
    /\ q.op = "submit"
    /\ \/ /\ store' = UpdateBySession(store, q)
          /\ Complete(q, [q EXCEPT !.code = 200, !.updated = TRUE])
       \/ /\ Complete(q, [q EXCEPT !.code = 200])
          /\ UNCHANGED store
    /\ UNCHANGED <<nextId, stripe, admin, verified, deleted>>

\* The update of the row that was read as 'paid'.
SubmitUpdate(q) ==
    /\ q.pc = "update"
    /\ q.op = "submit"
    /\ \/ /\ store' = UpdateBySession(store, q)
          /\ Complete(q, [q EXCEPT !.code = 200, !.updated = TRUE])
       \/ \* updateError
          /\ Complete(q, [q EXCEPT !.code = 500])
          /\ UNCHANGED store
    /\ UNCHANGED <<nextId, stripe, admin, verified, deleted>>

(* ----------------------------- GET /test ------------------------------ *)

Test(s) ==
    LET row == TestRow(nextId, s)
        q == [Idle EXCEPT !.op = "test", !.session_id = s]
    IN  /\ \/ /\ ~UniqueViolation(store, row)
              /\ nextId <= MaxId
              /\ store' = store \cup {row}
              /\ nextId' = nextId + 1
              /\ Answer([q EXCEPT !.code = 302, !.updated = TRUE])
           \/ /\ Answer([q EXCEPT !.code = 500])
              /\ UNCHANGED <<store, nextId>>
        /\ UNCHANGED <<stripe, admin, verified, deleted>>

(* ------------------------------- admin -------------------------------- *)

Login(password) ==
    /\ IF password = ADMIN_PASSWORD
       THEN /\ admin' = TRUE
            /\ Answer([Idle EXCEPT !.op = "login", !.password = password,
                                   !.code = 200])
       ELSE /\ admin' = admin
            /\ Answer([Idle EXCEPT !.op = "login", !.password = password,
                                   !.code = 401])
    /\ UNCHANGED <<store, nextId, stripe, verified, deleted>>

Logout ==
    /\ admin' = FALSE
    /\ Answer([Idle EXCEPT !.op = "logout", !.code = 200])
    /\ UNCHANGED <<store, nextId, stripe, verified, deleted>>

\* Mutant: the middleware lets every request through.
RequireAdmin_Open == TRUE

\* requireAdmin
RequireAdmin == admin

\* Mutant: the query has no status filter.
InStatus_All(st) == st

\* .in('status', ['submitted', 'answered'])
InStatus(st) == {x \in st : x.status \in {"submitted", "answered"}}

\* all.reduce((sum, c) => sum + (c.amount || 0), 0), in hundredths
RECURSIVE SumAmounts(_)
SumAmounts(rows) ==
    IF rows = {} THEN 0
    ELSE LET c == CHOOSE x \in rows : TRUE
         IN  c.amount + SumAmounts(rows \ {c})

\* The body GET /api/admin/stats computes from the rows it was given.
StatsOf(all) ==
    [total |-> Cardinality(all),
     pending |-> Cardinality({c \in all : c.status = "submitted"}),
     answered |-> Cardinality({c \in all : c.status = "answered"}),
     revenue |-> SumAmounts(all)]

\* GET /api/admin/stats
Stats ==
    /\ LET q == [Idle EXCEPT !.op = "stats"]
       IN  IF ~RequireAdmin
           THEN Answer([q EXCEPT !.code = 401])
           ELSE \/ Answer([q EXCEPT !.code = 200,
                                    !.stats = StatsOf(InStatus(store))])
                \/ \* error
                   Answer([q EXCEPT !.code = 500])
    /\ UNCHANGED <<store, nextId, stripe, admin, verified, deleted>>

\* GET /api/admin/consultations; the order of the rows is left out.
List ==
    /\ LET q == [Idle EXCEPT !.op = "list"]
       IN  IF ~RequireAdmin
           THEN Answer([q EXCEPT !.code = 401])
           ELSE \/ Answer([q EXCEPT !.code = 200, !.list = InStatus(store)])
                \/ \* error
                   Answer([q EXCEPT !.code = 500])
    /\ UNCHANGED <<store, nextId, stripe, admin, verified, deleted>>

\* requireAdmin, validation, then the lookup of the row by id.
RespondFetch(id, response) ==
    /\ LET q == [Idle EXCEPT !.op = "respond", !.id = id, !.response = response]
       IN  IF ~RequireAdmin
           THEN Answer([q EXCEPT !.code = 401])
           ELSE IF id = 0 \/ response = ""
           THEN Answer([q EXCEPT !.code = 400])
           ELSE \/ \E c \in ById(store, id) :
                      Start([q EXCEPT !.pc = "update"])
                \/ \* fetchError || !consultation
                   Answer([q EXCEPT !.code = 404])
    /\ UNCHANGED <<store, nextId, stripe, admin, verified, deleted>>

\* Mutant: the handler does not return on updateError.
RespondUpdate_NoReturn(q) ==
    /\ q.pc = "update"
    /\ q.op = "respond"
    /\ \/ /\ store' = UpdateById(store, q)
          /\ Await(q, [q EXCEPT !.pc = "email", !.updated = TRUE])
       \/ /\ Await(q, [q EXCEPT !.pc = "email"])
          /\ UNCHANGED store
    /\ UNCHANGED <<nextId, stripe, admin, verified, deleted>>

\* "Update status first (always save the response)"
RespondUpdate(q) ==
    /\ q.pc = "update"
    /\ q.op = "respond"
    /\ \/ /\ store' = UpdateById(store, q)
          /\ Await(q, [q EXCEPT !.pc = "email", !.updated = TRUE])
       \/ \* updateError
          /\ Complete(q, [q EXCEPT !.code = 500])
          /\ UNCHANGED store
    /\ UNCHANGED <<nextId, stripe, admin, verified, deleted>>

\* Mutant: emailSent is set before the send is awaited.
RespondEmail_FlagFirst(q) ==
    /\ q.pc = "email"
    /\ \/ Complete(q, [q EXCEPT !.mail = "delivered", !.emailSent = TRUE,
                                !.code = 200])
       \/ Complete(q, [q EXCEPT !.mail = "threw", !.emailSent = TRUE,
                                !.code = 200])
    /\ UNCHANGED <<store, nextId, stripe, admin, verified, deleted>>

\* resend.emails.send inside try/catch, then the response.
RespondEmail(q) ==
    /\ q.pc = "email"
    /\ \/ Complete(q, [q EXCEPT !.mail = "delivered", !.emailSent = TRUE,
                                !.code = 200])
       \/ \* send throws: emailSent stays false
          Complete(q, [q EXCEPT !.mail = "threw", !.code = 200])
    /\ UNCHANGED <<store, nextId, stripe, admin, verified, deleted>>

\* DELETE /api/admin/consultations/:id
Delete(id) ==
    /\ LET q == [Idle EXCEPT !.op = "delete", !.id = id]
       IN  IF ~RequireAdmin
           THEN /\ Answer([q EXCEPT !.code = 401])
                /\ UNCHANGED <<store, deleted>>
           ELSE \/ /\ store' = DeleteById(store, id)
                   /\ deleted' = deleted \cup
                          {x.stripe_session_id : x \in ById(store, id)}
                   /\ Answer([q EXCEPT !.code = 200])
                \/ \* error
                   /\ Answer([q EXCEPT !.code = 500])
                   /\ UNCHANGED <<store, deleted>>
    /\ UNCHANGED <<nextId, stripe, admin, verified>>

(* ------------------------------- Next --------------------------------- *)

Next ==
    \/ WebhookUnverified
    \/ WebhookOtherEvent
    \/ \E s \in Sessions : WebhookCompleted(s)
    \/ \E s \in FormQueries : FormFetch(s)
    \/ \E q \in InFlight : FormVerify(q)
    \/ \E b \in SubmitBodies : SubmitFetch(b)
    \/ \E q \in InFlight : SubmitRetrieve(q)
    \/ \E q \in InFlight : SubmitInsert(q)
    \/ \E q \in InFlight : SubmitUpdate(q)
    \/ \E s \in TestSessions : Test(s)
    \/ \E p \in Passwords : Login(p)
    \/ Logout
    \/ Stats
    \/ List
    \/ \E b \in RespondBodies : RespondFetch(b.id, b.response)
    \/ \E q \in InFlight : RespondUpdate(q)
    \/ \E q \in InFlight : RespondEmail(q)
    \/ \E id \in Ids : Delete(id)
    \/ Sent

Spec == Init /\ [][Next]_vars

(* ---------------- the service label on a range of amounts ------------- *)

\* Every provider session is paid and its amount ranges over WideAmounts.
InitLabels ==
    /\ store = {}
    /\ nextId = 1
    /\ stripe \in [Sessions -> [payment_status : {"paid"},
                                amount_total : WideAmounts]]
    /\ admin = FALSE
    /\ req = EmptyBag
    /\ last = Idle
    /\ verified = {}
    /\ deleted = {}

\* The two paths that derive a label: the webhook and the submit fallback.
NextLabels ==
    \/ \E s \in Sessions : WebhookCompleted(s)
    \/ \E b \in SubmitBodies : SubmitFetch(b)
    \/ \E q \in InFlight : SubmitRetrieve(q)
    \/ \E q \in InFlight : SubmitInsert(q)
    \/ \E q \in InFlight : SubmitUpdate(q)
    \/ Sent

SpecLabels == InitLabels /\ [][NextLabels]_vars

(* ------------- the customer who keeps sending the form ---------------- *)

\* A complete submit whose lookup went through: it found the session's row
\* when the store holds one.
SubmitFetchOk(b) ==
    /\ b.name # "" /\ b.email # "" /\ b.message # ""
    /\ SubmitFetch(b)
    /\ BySession(store, b.session_id) # {} =>
           \A q \in BagToSet(req') :
               CopiesIn(q, req') > CopiesIn(q, req) => q.pc # "retrieve"

\* The provider's retrieve returned the session.
SubmitRetrieveOk(q) ==
    /\ SubmitRetrieve(q)
    /\ q.session_id \in Sessions => ~(last' # Idle /\ last'.pay = "threw")

\* The fallback insert committed, unless the UNIQUE constraint refused it.
SubmitInsertOk(q) ==
    /\ SubmitInsert(q)
    /\ (BySession(store, q.session_id) = {} /\ nextId <= MaxId)
           => last'.updated

\* The update of the submit committed.
SubmitUpdateOk(q) ==
    /\ SubmitUpdate(q)
    /\ last'.updated

\* The webhook, the customer's submits, and the admin's login and respond;
\* no record is deleted.
NextLive ==
    \/ \E s \in Sessions : WebhookCompleted(s)
    \/ \E b \in SubmitBodies : SubmitFetch(b)
    \/ \E q \in InFlight : SubmitRetrieve(q)
    \/ \E q \in InFlight : SubmitInsert(q)
    \/ \E q \in InFlight : SubmitUpdate(q)
    \/ \E p \in Passwords : Login(p)
    \/ \E b \in RespondBodies : RespondFetch(b.id, b.response)
    \/ \E q \in InFlight : RespondUpdate(q)
    \/ \E q \in InFlight : RespondEmail(q)
    \/ Sent

\* Every response leaves and every awaited call returns; the customer
\* keeps sending a complete submit, and the store and provider calls of a
\* submit succeed again and again.
SpecLive ==
    /\ Init
    /\ [][NextLive]_vars
    /\ WF_vars(Sent)
    /\ SF_vars(\E q \in InFlight : RespondUpdate(q))
    /\ SF_vars(\E q \in InFlight : RespondEmail(q))
    /\ SF_vars(\E b \in SubmitBodies : SubmitFetchOk(b))
    /\ SF_vars(\E q \in InFlight : SubmitRetrieveOk(q))
    /\ SF_vars(\E q \in InFlight : SubmitInsertOk(q))
    /\ SF_vars(\E q \in InFlight : SubmitUpdateOk(q))

(* ------------------------------ claims -------------------------------- *)

\* The step sends the response of a request (last' is that response).
Responds == last = Idle /\ last' # Idle

Left == {"submitted", "answered"}

\* C1: the status of a record never regresses: in no step does the row of
\* an id go from 'submitted' to 'paid', or from 'answered' to 'submitted'
\* or 'paid'.
C1_StatusNeverRegresses ==
    [][\A x \in store : \A y \in store' :
           x.id = y.id => StatusRank(y.status) >= StatusRank(x.status)]_vars

\* C2: every step that sets a record's status to 'answered' starts from a
\* state where that record is 'submitted' or already 'answered', never
\* 'paid'.
C2_AnsweredOnlyFromSubmitted ==
    [][\A x \in store : \A y \in store' :
           (x.id = y.id /\ y.status = "answered") => x.status \in Left]_vars

\* The status of the session's row, "none" without one.
StatusOf(st, sid) ==
    IF BySession(st, sid) = {} THEN "none"
    ELSE (CHOOSE x \in BySession(st, sid) : TRUE).status

\* Request q is new in flight after the step.
Started(q) == CopiesIn(q, req') > CopiesIn(q, req)

C4_OneRowPerSession ==
    \A x \in store : \A y \in store :
        x.stripe_session_id = y.stripe_session_id => x = y

\* A submit found no row and is about to insert one, and the webhook has
\* just inserted the session's row, the first the store ever held.
C4_Witness ==
    /\ last.op = "webhook"
    /\ last.updated
    /\ nextId = 2
    /\ \E x \in store : x.stripe_session_id = last.session_id
    /\ \E q \in InFlight : /\ q.op = "submit"
                             /\ q.pc = "insert"
                             /\ q.session_id = last.session_id

\* C5: within a respond request the email send is attempted only after the
\* request's store update has committed: never while the request is still
\* before or at its update, and never in a request answered 401, 400, 404
\* or 500.
C5_EmailOnlyAfterCommit ==
    /\ \A q \in InFlight : q.mail = "none"
    /\ last.mail # "none" => (last.op = "respond" /\ last.updated /\ last.code = 200)
    /\ (last.op = "respond" /\ last.code # 200) => last.mail = "none"

C5_Witness ==
    /\ last.op = "respond"
    /\ last.mail = "delivered"
    /\ last.updated

\* The step commits the update of respond request q.
CommitsRespond(q) ==
    /\ q.op = "respond"
    /\ q.pc = "update"
    /\ CopiesIn([q EXCEPT !.pc = "email", !.updated = TRUE], req')
           > CopiesIn([q EXCEPT !.pc = "email", !.updated = TRUE], req)

\* C6: the committed update sets status 'answered', the given response and
\* answered_at on the record; the email step that follows changes nothing
\* in the store whether the send succeeds or fails, answers 200, and
\* reports emailSent = true exactly when the send succeeded.
C6_EmailFailureKeepsUpdate ==
    [][/\ \A q \in InFlight : CommitsRespond(q) =>
              \A x \in store : x.id = q.id =>
                  \E y \in store' : /\ y.id = x.id
                                    /\ y.status = "answered"
                                    /\ y.response = q.response
                                    /\ y.answered_at # NULL
       /\ (Responds /\ last'.op = "respond" /\ last'.updated) =>
              /\ store' = store
              /\ last'.code = 200
              /\ last'.mail # "none"
              /\ last'.emailSent <=> (last'.mail = "delivered")]_vars

C6_Witness ==
    /\ last.op = "respond"
    /\ last.code = 200
    /\ last.mail = "threw"
    /\ ~last.emailSent
    /\ \E x \in store : /\ x.id = last.id
                        /\ x.status = "answered"
                        /\ x.response = last.response
                        /\ x.answered_at # NULL

\* The label the claim gives an amount (in minor units, a missing one is 0).
ClaimLabel(amount) ==
    IF amount >= 1000 THEN "Consultation Ressenti" ELSE "Reponse Oui / Non"

\* C7: the label a record carries is the premium label exactly when its
\* amount is >= 1000, whichever path stored it, so the webhook path and the
\* submit fallback store the same label for the same amount.
C7_SameLabelOnBothPaths ==
    /\ \A x \in store : x.service = ClaimLabel(x.amount)
    /\ \A s \in Sessions :
           WebhookService(AmountOrZero(stripe[s].amount_total))
               = SubmitService(AmountOrZero(stripe[s].amount_total))

\* The fallback stored a row for an amount of exactly 1000.
C7_Witness ==
    /\ last.op = "submit"
    /\ last.seen = "none"
    /\ last.code = 200
    /\ \E x \in store : /\ x.stripe_session_id = last.session_id
                        /\ x.amount = 1000
                        /\ x.service = PremiumLabel
                        /\ x.status = "submitted"

\* C8: a 'paid' record has name, email, message and submitted_at null, and
\* a 'submitted' or 'answered' record has them all non-null.
C8_FormFieldsIffSubmitted ==
    \A x \in store :
        /\ x.status = "paid" =>
               /\ x.name = NULL /\ x.email = NULL
               /\ x.message = NULL /\ x.submitted_at = NULL
        /\ x.status \in Left =>
               /\ x.name # NULL /\ x.email # NULL
               /\ x.message # NULL /\ x.submitted_at # NULL

\* C9: a record's response and answered_at are non-null if and only if its
\* status is 'answered'.
C9_ResponseIffAnswered ==
    \A x \in store :
        /\ (x.response # NULL) <=> (x.status = "answered")
        /\ (x.answered_at # NULL) <=> (x.status = "answered")

\* C10: every record belongs to a session whose payment was verified, by a
\* signature-verified checkout.session.completed event or by a retrieve
\* that reported the session paid.
C10_OnlyVerifiedSessions ==
    \A x \in store : x.stripe_session_id \in verified

\* C11: once the signature is verified the webhook answers 200, whatever
\* the event type and whether or not the insert committed; a refused or
\* failed insert is never surfaced to the provider.
C11_VerifiedWebhookAlways200 ==
    (last.op = "webhook" /\ last.event \in {"other", "completed"})
        => last.code = 200

\* A completed event for a session that already has its row: the insert
\* was refused and the answer is 200.
C11_Witness ==
    /\ last.op = "webhook"
    /\ last.event = "completed"
    /\ ~last.updated
    /\ last.code = 200
    /\ \E x \in store : x.stripe_session_id = last.session_id

\* C12: GET /form never serves the question form for a session whose
\* record is 'submitted' or 'answered' at the time of the response,
\* whatever the lookup and the payment check returned.
C12_NoFormOnceSubmitted ==
    [][(Responds /\ last'.op = "form" /\ last'.view = "form")
           => StatusOf(store, last'.session_id) \notin Left]_vars

\* The step is one of a GET /form request: its lookup or its response.
FormStep ==
    \/ Responds /\ last'.op = "form"
    \/ \E q \in BagToSet(req') : Started(q) /\ q.op = "form"

\* C13: GET /form answers with the redirect to the services section, not
\* with the form or an error page, when the session id is missing, and
\* when the lookup gave no record and the provider's retrieve threw or
\* reported the session not paid; and no step of GET /form changes the
\* store.
C13_FormFailsClosed ==
    [][/\ FormStep => store' = store
       /\ (Responds /\ last'.op = "form"
              /\ \/ last'.session_id = ""
                 \/ last'.seen = "none" /\ last'.pay \in {"threw", "unpaid"})
              => (last'.view = "services" /\ last'.code = 302)]_vars

\* The lookup of an existing row failed and the retrieve threw.
C13_Witness ==
    /\ last.op = "form"
    /\ last.seen = "none"
    /\ last.pay = "threw"
    /\ last.view = "services"
    /\ \E x \in store : x.stripe_session_id = last.session_id

AdminOps == {"stats", "list", "respond", "delete"}

\* C14: an admin operation (stats, list, respond, delete) that arrives
\* while the session flag is not set is answered 401 at once, changes
\* nothing in the store and sends no email; the flag becomes set only in a
\* login with the password ADMIN_PASSWORD, a login with another password
\* is answered 401 and leaves the flag as it was; a logout leaves the flag
\* unset, so that admin operations are refused until the next such login.
C14_AdminGate ==
    [][/\ \A q \in BagToSet(req') :
              (Started(q) /\ q.op = "respond" /\ q.pc = "update") => admin
       /\ (Responds /\ req' = req /\ last'.op \in AdminOps /\ ~admin)
              => /\ last'.code = 401
                 /\ store' = store
                 /\ last'.mail = "none"
       /\ (admin' /\ ~admin)
              => /\ last'.op = "login"
                 /\ last'.password = ADMIN_PASSWORD
                 /\ last'.code = 200
       /\ (Responds /\ last'.op = "login" /\ last'.password # ADMIN_PASSWORD)
              => (last'.code = 401 /\ admin' = admin)
       /\ (Responds /\ last'.op = "logout") => ~admin']_vars

\* A respond is refused after a logout: the store holds a record that an
\* earlier admin session answered.
C14_Witness ==
    /\ last.op = "respond"
    /\ last.code = 401
    /\ ~admin
    /\ \E x \in store : x.id = last.id /\ x.status = "answered"

\* C15: a delete of id X answered with success removes the record with id
\* X and no other: records with another id are kept unchanged and none is
\* added; when no record has id X the store is unchanged and the answer is
\* still success; deleting X a second time changes nothing more.
C15_DeleteExactlyOne ==
    [][(Responds /\ last'.op = "delete") =>
          /\ \A x \in store : x.id # last'.id => x \in store'
          /\ store' \subseteq store
          /\ last'.code = 200 =>
                 /\ ById(store', last'.id) = {}
                 /\ ById(store, last'.id) = {} => store' = store
                 /\ DeleteById(store', last'.id) = store'
          /\ last'.code # 200 => store' = store]_vars

\* A delete of an id the store never gave out is answered with success
\* and the store still holds its record.
C15_Witness ==
    /\ last.op = "delete"
    /\ last.code = 200
    /\ last.id >= nextId
    /\ store # {}

\* C16: once the record of a session has been deleted, no record for that
\* session id exists in any later state.
C16_DeletedStaysDeleted ==
    \A x \in store : x.stripe_session_id \notin deleted

\* The step answers a submit that took the fallback: its lookup gave no
\* record and the provider was asked.
FallbackResponds ==
    Responds /\ last'.op = "submit" /\ last'.seen = "none" /\ last'.pay # "none"

\* The step inserts exactly one record, the one the request describes:
\* 'submitted', with its name, email, message, a submitted_at and no
\* response.
InsertsSubmitted(q) ==
    \E x \in store' \ store :
        /\ store' = store \cup {x}
        /\ x.stripe_session_id = q.session_id
        /\ x.status = "submitted"
        /\ x.name = q.name /\ x.email = q.email /\ x.message = q.message
        /\ x.submitted_at # NULL
        /\ x.response = NULL

\* C17 as stated: a submit that found no record creates one if and only
\* if the provider reports the session paid: paid, it inserts the
\* 'submitted' record and succeeds; not paid or retrieve failed, it answers
\* 403 and leaves the store unchanged.
C17_FallbackCreatesIffPaid ==
    [][FallbackResponds =>
           IF last'.pay = "paid"
           THEN last'.code = 200 /\ InsertsSubmitted(last')
           ELSE last'.code = 403 /\ store' = store]_vars

\* C17 amended: paid, the insert is attempted: committed, exactly the
\* 'submitted' record is added and the answer is success; refused or
\* failed, the answer is 500 and the store is unchanged.  Not paid or
\* retrieve failed, the answer is 403 and the store is unchanged.  No step
\* of a submit writes a 'paid' row.
C17_FallbackInsertOr500 ==
    [][/\ FallbackResponds =>
              IF last'.pay = "paid"
              THEN \/ last'.code = 200 /\ InsertsSubmitted(last')
                   \/ last'.code = 500 /\ store' = store
              ELSE last'.code = 403 /\ store' = store
       /\ (Responds /\ last'.op = "submit") =>
              \A y \in store' \ store : y.status = "submitted"]_vars

C17_Witness ==
    /\ last.op = "submit"
    /\ last.seen = "none"
    /\ last.pay = "paid"
    /\ last.code = 200
    /\ last.updated
    /\ \E x \in store : /\ x.stripe_session_id = last.session_id
                        /\ x.status = "submitted"
                        /\ x.message = last.message
                        /\ x.response = NULL

\* The step ends the store write of request q: the fallback insert or the
\* update of a submit, or the update of a respond.
WriteEnds(q) ==
    /\ q.op \in {"submit", "respond"}
    /\ q.pc \in {"insert", "update"}
    /\ CopiesIn(q, req') < CopiesIn(q, req)

\* C18: in submit and respond a store write either commits or fails, and
\* a write that fails is answered 500 in the same step, with no second
\* attempt, and leaves the store unchanged: the record a submit read as
\* 'paid' is as it was, the fallback insert has created no record, and the
\* record of a respond keeps its status and response.
C18_WriteFailureIs500 ==
    [][/\ \A q \in InFlight : WriteEnds(q) =>
              \/ CommitsRespond(q)
              \/ /\ q.op = "submit"
                 /\ last' = [q EXCEPT !.pc = "done", !.code = 200,
                                      !.updated = TRUE]
              \/ /\ last' = [q EXCEPT !.pc = "done", !.code = 500]
                 /\ store' = store
       /\ (Responds /\ last'.op \in {"submit", "respond"} /\ last'.code = 500)
              => (store' = store /\ ~last'.updated)]_vars

\* The update of a submit failed: the answer is 500 and the record is
\* still 'paid'.
C18_Witness ==
    /\ last.op = "submit"
    /\ last.seen = "paid"
    /\ last.code = 500
    /\ ~last.updated
    /\ \E x \in store : /\ x.stripe_session_id = last.session_id
                        /\ x.status = "paid"
                        /\ x.name = NULL

\* The records with the given status.
WithStatus(st, s) == {x \in st : x.status = s}

\* C19: the statistics an admin is given are those of the records with
\* status 'submitted' or 'answered' at that moment: pending counts the
\* 'submitted' ones, answered the 'answered' ones, total is their sum,
\* revenue is the sum of the amounts of those records, and the result is
\* the same as if the 'paid' records were not in the store.
C19_StatsOverSubmittedAnswered ==
    [][(Responds /\ last'.op = "stats" /\ last'.code = 200) =>
          /\ last'.stats.pending = Cardinality(WithStatus(store, "submitted"))
          /\ last'.stats.answered = Cardinality(WithStatus(store, "answered"))
          /\ last'.stats.total = last'.stats.pending + last'.stats.answered
          /\ last'.stats.revenue =
                 SumAmounts(WithStatus(store, "submitted")
                                \cup WithStatus(store, "answered"))
          /\ last'.stats = StatsOf(store \ WithStatus(store, "paid"))]_vars

\* Statistics given while the store holds a 'paid' record next to a
\* 'submitted' or 'answered' one.
C19_Witness ==
    /\ last.op = "stats"
    /\ last.code = 200
    /\ last.stats.total = 1
    /\ last.stats.revenue > 0
    /\ WithStatus(store, "paid") # {}

\* C20: the update of a respond commits on the record whatever its status
\* and leaves it 'answered' with the given response; on a record that is
\* already 'answered' it leaves the status 'answered'; and the same
\* request applied once more to the result gives the same status and the
\* same response.
C20_RespondIdempotent ==
    [][\A q \in InFlight : CommitsRespond(q) =>
           \A x \in store : x.id = q.id =>
               \E y \in store' :
                   /\ y.id = x.id
                   /\ y.status = "answered"
                   /\ y.response = q.response
                   /\ RespondUpdateRow(y, q).status = y.status
                   /\ RespondUpdateRow(y, q).response = y.response]_vars

\* The same respond request was issued twice and both updates committed
\* on the record, which is 'answered' with that response.
C20_Witness ==
    /\ last.op = "respond"
    /\ last.code = 200
    /\ last.updated
    /\ \E q \in InFlight : /\ q.op = "respond"
                             /\ q.pc = "email"
                             /\ q.updated
                             /\ q.id = last.id
                             /\ q.response = last.response
    /\ \E x \in store : /\ x.id = last.id
                        /\ x.status = "answered"
                        /\ x.response = last.response

\* C21: at most one submit per session is answered with success: a submit
\* never succeeds on a session whose record an earlier submit has already
\* filled in (submitted_at is set by a committed submit and by nothing
\* else).
C21_OneSubmitSucceeds ==
    [][(Responds /\ last'.op = "submit" /\ last'.code = 200)
           => \A x \in BySession(store, last'.session_id) :
                  x.submitted_at = NULL]_vars

\* C22: a verified checkout.session.completed event for a session that
\* already has a record leaves the store, that record included, entirely
\* unchanged: its status is not reset to 'paid' and its name, email,
\* message, service and amount keep their values.
C22_RedeliveryChangesNothing ==
    [][(Responds /\ last'.op = "webhook" /\ last'.event = "completed"
           /\ BySession(store, last'.session_id) # {})
           => store' = store]_vars

\* The event arrived after the session's record was submitted: the record
\* is still 'submitted' with its name.
C22_Witness ==
    /\ last.op = "webhook"
    /\ last.event = "completed"
    /\ \E x \in store : /\ x.stripe_session_id = last.session_id
                        /\ x.status = "submitted"
                        /\ x.name # NULL

\* C23: a respond request that returns success has its record in the
\* store, 'answered' and with the given response, whatever delete and
\* submit requests ran between its read and its update: the update that
\* returns without error, after which the request can only return
\* success, leaves that record in the store.
C23_SuccessMeansAnswered ==
    [][\A q \in InFlight : CommitsRespond(q) =>
           \E y \in store' : /\ y.id = q.id
                             /\ y.status = "answered"
                             /\ y.response = q.response]_vars

==========================================================================
